---------------------------- MODULE Spec2Model ----------------------------
(***************************************************************************)
(* A model of the tag-governance and event-query use cases of openfairdb:  *)
(*   src/src/core/usecases/mod.rs           prepare_tag_list,              *)
(*                                          authorize_moderated_tags_...   *)
(*   src/src/core/usecases/query_events.rs  query_events                   *)
(*   src/src/infrastructure/db/sqlite/util.rs  tags_diff                   *)
(*                                                                         *)
(* Strings (tags, ids) are sequences of character codes, so that           *)
(* lowercasing, whitespace splitting, '#' removal and the lexicographic    *)
(* order of sort_unstable are computed rather than assumed.                *)
(***************************************************************************)
EXTENDS Integers, Sequences, FiniteSets, TLC

VARIABLES
    \* ---- authorize_moderated_tags_owned_by_orgs: one call ----
    storedTags,   \* what db.get_all_tags_owned_by_orgs() holds: set of (org_id, ModeratedTag)
    old_tags,     \* argument old_tags: &[String]
    new_tags,     \* argument new_tags: &[String]
    org,          \* argument org: Option<&Organization>
    authResult,   \* NoResult before the call, then Result<Vec<Id>>
    \* ---- query_events: one call ----
    query,        \* argument query: EventQuery
    token,        \* argument token: Option<String>
    dbEvents,     \* the events storage holds
    calls,        \* the calls made to storage and to the index, in order, with their results
    qResult,      \* NoResult before the call, then Result<Vec<Event>>
    prev,         \* None, or the token, calls and result of an earlier call with the same query
    \* ---- tags_diff: one call ----
    diff_old,     \* argument old: &[String]
    diff_new,     \* argument new: &[String]
    change_set,   \* NoResult before the call, then ChangeSet<String>
    \* ---- prepare_tag_list: one call ----
    raw_tags,     \* argument tags, as a sequence of strings
    prepared,     \* NoResult before the call, then the returned Vec<String> (tags)
    \* ---- prepare_new_rating / store_new_rating ----
    ratings,      \* the ratings storage holds, in the order they were created
    comments,     \* the comments storage holds, in the order they were created
    held,         \* the Storables prepare_new_rating has returned to its callers
    store_pc,     \* where the store_new_rating call in progress stands, with its Storable
    rate_result,  \* NoResult, then the record of the last call that returned
    \* ---- subscribe_to_bbox / unsubscribe_all_bboxes ----
    subscriptions, \* the BboxSubscriptions storage holds
    sub_result,   \* NoResult, then the record of the last call that returned
    \* ---- Id::new() ----
    next_id       \* the number of the next fresh Id

authVars == <<storedTags, old_tags, new_tags, org, authResult>>
queryVars == <<query, token, dbEvents, calls, qResult, prev>>
tagVars == <<diff_old, diff_new, change_set, raw_tags, prepared>>
rateVars == <<ratings, comments, held, store_pc, rate_result>>
subVars == <<subscriptions, sub_result>>
dbVars == <<rateVars, subVars, next_id>>

vars == <<authVars, queryVars, tagVars, dbVars>>

None == [none |-> TRUE]
Some(v) == [some |-> v]
NoResult == [pending |-> TRUE]

(***************************************************************************)
(* Characters and strings                                                  *)
(***************************************************************************)
ChSpace == 32
ChHash == 35
ChUpperA == 65
ChUpperZ == 90
ChLowerA == 97
ChLowerB == 98

\* char::to_lowercase on the ASCII range
CharToLower(c) == IF c >= ChUpperA /\ c <= ChUpperZ THEN c + (ChLowerA - ChUpperA) ELSE c

\* str::to_lowercase
ToLowercase(s) == [i \in 1..Len(s) |-> CharToLower(s[i])]

\* char::is_whitespace, on the characters of the model
IsWhitespace(c) == c = ChSpace

\* Ord for String / Id: lexicographic comparison of the bytes
RECURSIVE StrLess(_, _)
StrLess(s, t) ==
    IF t = <<>> THEN FALSE
    ELSE IF s = <<>> THEN TRUE
    ELSE IF Head(s) < Head(t) THEN TRUE
    ELSE IF Head(s) > Head(t) THEN FALSE
    ELSE StrLess(Tail(s), Tail(t))

\* insertion of one string into an ascending sequence
RECURSIVE InsertSorted(_, _)
InsertSorted(x, s) ==
    IF s = <<>> THEN <<x>>
    ELSE IF StrLess(Head(s), x) THEN <<Head(s)>> \o InsertSorted(x, Tail(s))
    ELSE <<x>> \o s

\* mutant: the tags are left in the order they came in
SortUnstable_AsGiven(s) == s

\* Vec::sort_unstable: equal strings are indistinguishable, so the result is
\* the one ascending arrangement of the elements
RECURSIVE SortUnstable(_)
SortUnstable(s) ==
    IF s = <<>> THEN <<>> ELSE InsertSorted(Head(s), SortUnstable(Tail(s)))

\* mutant: the duplicates are kept
Dedup_Keep(s) == s

\* Vec::dedup: removes consecutive repeated elements
RECURSIVE Dedup(_)
Dedup(s) ==
    IF Len(s) <= 1 THEN s
    ELSE IF s[1] = s[2] THEN Dedup(Tail(s))
    ELSE <<s[1]>> \o Dedup(Tail(s))

\* slice.iter().any(|x| x == t)
Contains(s, t) == \E i \in 1..Len(s) : s[i] = t

Range(s) == {s[i] : i \in 1..Len(s)}

\* all sequences over S of length at most n
SeqsUpTo(S, n) == UNION {[1..k -> S] : k \in 0..n}

\* every ordering of the finite set S as a sequence without repetition
Orderings(S) ==
    {s \in [1..Cardinality(S) -> S] : \A i, j \in 1..Cardinality(S) : s[i] = s[j] => i = j}


(***************************************************************************)
(* prepare_tag_list (mod.rs 156-174)                                       *)
(***************************************************************************)
\* str::split_whitespace: the maximal runs of non-whitespace characters
RECURSIVE SplitFrom(_, _, _)
SplitFrom(s, cur, acc) ==
    IF s = <<>> THEN (IF cur = <<>> THEN acc ELSE Append(acc, cur))
    ELSE IF IsWhitespace(Head(s))
         THEN SplitFrom(Tail(s), <<>>, IF cur = <<>> THEN acc ELSE Append(acc, cur))
         ELSE SplitFrom(Tail(s), Append(cur, Head(s)), acc)

SplitWhitespace(s) == SplitFrom(s, <<>>, <<>>)

\* mutant: the reserved character is left in
RemoveReserved_Keep(s) == s

\* t.replace("#", "")
RemoveReserved(s) == SelectSeq(s, LAMBDA c : c # ChHash)

\* str::trim
RECURSIVE TrimStart(_)
TrimStart(s) ==
    IF s # <<>> /\ IsWhitespace(Head(s)) THEN TrimStart(Tail(s)) ELSE s

RECURSIVE TrimEnd(_)
TrimEnd(s) ==
    IF s # <<>> /\ IsWhitespace(s[Len(s)]) THEN TrimEnd(SubSeq(s, 1, Len(s) - 1)) ELSE s

Trim(s) == TrimEnd(TrimStart(s))

\* .flat_map(|t| t.split_whitespace())
RECURSIVE FlatSplit(_)
FlatSplit(tags) ==
    IF tags = <<>> THEN <<>> ELSE SplitWhitespace(Head(tags)) \o FlatSplit(Tail(tags))

\* .map(to_lowercase).map(replace("#", "")).filter_map(trim, non-empty, to_lowercase)
RECURSIVE MapFilterTokens(_)
MapFilterTokens(tokens) ==
    IF tokens = <<>> THEN <<>>
    ELSE LET t == Trim(RemoveReserved(ToLowercase(Head(tokens))))
         IN  (IF t = <<>> THEN <<>> ELSE <<ToLowercase(t)>>) \o MapFilterTokens(Tail(tokens))

prepare_tag_list(tags) == Dedup(SortUnstable(MapFilterTokens(FlatSplit(tags))))

(***************************************************************************)
(* tags_diff (infrastructure/db/sqlite/util.rs 352-369)                    *)
(***************************************************************************)
\* mutant: the two loops compare against the wrong list
tags_diff_Swapped(old, new) ==
    [added   |-> SelectSeq(old, LAMBDA t : ~Contains(new, t)),
     deleted |-> SelectSeq(new, LAMBDA t : ~Contains(old, t))]

tags_diff(old, new) ==
    [added   |-> SelectSeq(new, LAMBDA t : ~Contains(old, t)),
     deleted |-> SelectSeq(old, LAMBDA t : ~Contains(new, t))]

(***************************************************************************)
(* authorize_moderated_tags_owned_by_orgs (mod.rs 183-238)                 *)
(***************************************************************************)
\* TagModerationFlags, read through allows_add(), allows_remove() and
\* requires_authorization()
ModerationFlags ==
    [allows_add : BOOLEAN, allows_remove : BOOLEAN, requires_authorization : BOOLEAN]

\* ModeratedTag { label, moderation_flags }
ModeratedTag(label, flags) == [label |-> label, moderation_flags |-> flags]

\* Organization as loaded from storage: its id and its own moderated tags
\* (cf. db.get_org_by_api_token, query_events.rs 31)
OrganizationOf(stored, id) ==
    [id |-> id, moderated_tags |-> {e.tag : e \in {x \in stored : x.org_id = id}}]

\* mutant: the exclusion of the given organization is forgotten
moderated_tags_by_other_orgs_NoExclusion(moderated_tags_by_orgs, o) == moderated_tags_by_orgs

\* lines 190-201: the entries left after dropping every entry whose
\* ModeratedTag equals (label and flags) one of org.moderated_tags
moderated_tags_by_other_orgs(moderated_tags_by_orgs, o) ==
    IF o # None
    THEN SelectSeq(moderated_tags_by_orgs,
                   LAMBDA e : ~(\E moderated_org_tag \in o.moderated_tags :
                                    moderated_org_tag = e.tag))
    ELSE moderated_tags_by_orgs

\* mutant: every new tag counts as added, unchanged ones included
AddedTags_AllNew(old, new) == new

\* mutant: the lists are normalised before they are compared
AddedTags_Normalised(old, new) ==
    SelectSeq(prepare_tag_list(new), LAMBDA new_tag : ~Contains(prepare_tag_list(old), new_tag))

\* lines 203-205 and 219-221: the tags the change adds / removes
AddedTags(old, new) == SelectSeq(new, LAMBDA new_tag : ~Contains(old, new_tag))
RemovedTags(old, new) == SelectSeq(old, LAMBDA old_tag : ~Contains(new, old_tag))

\* mutant: the removal flag is consulted for additions too
AllowsOp_RemoveFlagOnly(flags, isAdd) == flags.allows_remove

\* mutant: the addition flag is consulted for removals too
AllowsOp_AddFlagOnly(flags, isAdd) == flags.allows_add

\* lines 211 / 227: the flag that vetoes the operation
AllowsOp(flags, isAdd) == IF isAdd THEN flags.allows_add ELSE flags.allows_remove

\* the inner loop (lines 207-217 / 223-233) for one changed tag; acc is
\* [failed, ids]: failed models the early return Err(ModeratedTag)
RECURSIVE ScanEntries(_, _, _, _)
ScanEntries(entries, changed_tag, isAdd, acc) ==
    IF entries = <<>> THEN acc
    ELSE LET e == Head(entries) IN
         IF e.tag.label # changed_tag
         THEN ScanEntries(Tail(entries), changed_tag, isAdd, acc)
         ELSE IF ~AllowsOp(e.tag.moderation_flags, isAdd)
         THEN [failed |-> TRUE, ids |-> acc.ids]
         ELSE ScanEntries(Tail(entries), changed_tag, isAdd,
                  IF e.tag.moderation_flags.requires_authorization
                  THEN [acc EXCEPT !.ids = Append(@, e.org_id)]
                  ELSE acc)

\* the outer loop over the added (or removed) tags
RECURSIVE ScanTags(_, _, _, _)
ScanTags(tags, entries, isAdd, acc) ==
    IF acc.failed \/ tags = <<>> THEN acc
    ELSE ScanTags(Tail(tags), entries, isAdd, ScanEntries(entries, Head(tags), isAdd, acc))

OkIds(ids) == [ok |-> TRUE, err |-> "", ids |-> ids]
Err(e) == [ok |-> FALSE, err |-> e, ids |-> <<>>]

\* the whole function, given the Vec storage returned
authorize_moderated_tags_owned_by_orgs(moderated_tags_by_orgs, old, new, o) ==
    LET others  == moderated_tags_by_other_orgs(moderated_tags_by_orgs, o)
        added   == ScanTags(AddedTags(old, new), others, TRUE,
                            [failed |-> FALSE, ids |-> <<>>])
        removed == ScanTags(RemovedTags(old, new), others, FALSE, added)
    IN  IF removed.failed THEN Err("ModeratedTag")
        ELSE OkIds(Dedup(SortUnstable(removed.ids)))

(***************************************************************************)
(* Universe of the authorizer's inputs                                     *)
(***************************************************************************)
MaxTags == 2
MaxEntries == 2

OrgIds == {<<49>>, <<50>>}
Labels == {<<ChLowerA>>, <<ChLowerB>>}
\* tag strings in canonical form: "a", "b"
TagStrings == {<<ChLowerA>>, <<ChLowerB>>}
\* raw tag strings: "a", "A", "#a b"
RawTagStrings ==
    {<<ChLowerA>>, <<ChUpperA>>, <<ChHash, ChLowerA, ChSpace, ChLowerB>>}

Slots == OrgIds \X Labels

\* storage holds at most one ModeratedTag per (organization, label)
Policies ==
    UNION {{ {[org_id |-> sl[1], tag |-> ModeratedTag(sl[2], f[sl])] : sl \in S} :
             f \in [S -> ModerationFlags]} :
           S \in {T \in SUBSET Slots : Cardinality(T) <= MaxEntries}}

\* the policies on the label "a" alone
PoliciesOnA == {p \in Policies : \A e \in p : e.tag.label = <<ChLowerA>>}

\* the tag list of an entry: no tag twice, in any order
TagLists ==
    {l \in SeqsUpTo(TagStrings, MaxTags) : \A i, j \in 1..Len(l) : l[i] = l[j] => i = j}
\* lists of raw strings, repetitions included
RawTagLists == SeqsUpTo(RawTagStrings, MaxTags)

\* no query_events call is part of the authorizer's runs
IdleQuery ==
    /\ query = None
    /\ token = None
    /\ dbEvents = {}
    /\ calls = <<>>
    /\ qResult = NoResult
    /\ prev = None

\* no tags_diff and no prepare_tag_list call is part of the run
IdleTags ==
    /\ diff_old = <<>>
    /\ diff_new = <<>>
    /\ change_set = NoResult
    /\ raw_tags = <<>>
    /\ prepared = NoResult

\* no rating and no subscription call is part of the run
IdleDb ==
    /\ ratings = <<>>
    /\ comments = <<>>
    /\ held = {}
    /\ store_pc = [pc |-> "idle"]
    /\ rate_result = NoResult
    /\ subscriptions = {}
    /\ sub_result = NoResult
    /\ next_id = 1

InitAuth ==
    /\ IdleQuery
    /\ IdleTags
    /\ IdleDb
    /\ storedTags \in Policies
    /\ old_tags \in TagLists
    /\ new_tags \in TagLists
    /\ org \in {None} \cup {OrganizationOf(storedTags, id) : id \in OrgIds}
    /\ authResult = NoResult

\* one call; storage hands the entries back in some order
Authorize ==
    /\ authResult = NoResult
    /\ \E moderated_tags_by_orgs \in Orderings(storedTags) :
          authResult' = authorize_moderated_tags_owned_by_orgs(
                            moderated_tags_by_orgs, old_tags, new_tags, org)
    /\ UNCHANGED <<storedTags, old_tags, new_tags, org>>
    /\ UNCHANGED <<queryVars, tagVars, dbVars>>

NextAuth == Authorize

\* the authorizer on tag lists over the labels
SpecAuth == InitAuth /\ [][NextAuth]_vars

\* the authorizer on raw (not normalised) tag lists
InitAuthRaw ==
    /\ IdleQuery
    /\ IdleTags
    /\ IdleDb
    /\ storedTags \in PoliciesOnA
    /\ old_tags \in RawTagLists
    /\ new_tags \in RawTagLists
    /\ org \in {None} \cup {OrganizationOf(storedTags, id) : id \in OrgIds}
    /\ authResult = NoResult

SpecAuthRaw == InitAuthRaw /\ [][NextAuth]_vars


(***************************************************************************)
(* Properties of authorize_moderated_tags_owned_by_orgs                    *)
(***************************************************************************)
AuthDone == authResult # NoResult

\* the tags the change adds / removes, as sets
AddedSet == Range(new_tags) \ Range(old_tags)
RemovedSet == Range(old_tags) \ Range(new_tags)

\* an entry is exempted when an excluding organization is given and the
\* entry's ModeratedTag is one of that organization's own moderated tags
Exempted(e) == org # None /\ e.tag \in org.moderated_tags
RemainingEntries == {e \in storedTags : ~Exempted(e)}

VetoesAdd(e) == e.tag.label \in AddedSet /\ ~e.tag.moderation_flags.allows_add
VetoesRemove(e) == e.tag.label \in RemovedSet /\ ~e.tag.moderation_flags.allows_remove

RECURSIVE StrictlyAscending(_)
StrictlyAscending(s) ==
    Len(s) <= 1 \/ (StrLess(s[1], s[2]) /\ StrictlyAscending(Tail(s)))

\* C1: if some added tag has a remaining (non-exempted) moderation entry with
\* that label and allows_add = false, the call fails with ModeratedTag, whatever
\* else the change adds or removes and whatever the flags of other entries are.
C1_AddVeto ==
    (AuthDone /\ \E e \in RemainingEntries : VetoesAdd(e))
        => authResult = Err("ModeratedTag")

\* the veto fires although the same change also touches another tag and
\* another entry permits and wants to authorize
C1_Witness ==
    /\ AuthDone
    /\ \E e \in RemainingEntries : VetoesAdd(e)
    /\ Cardinality(AddedSet \cup RemovedSet) >= 2
    /\ \E e \in RemainingEntries :
          /\ e.tag.label \in AddedSet \cup RemovedSet
          /\ e.tag.moderation_flags.allows_add
          /\ e.tag.moderation_flags.allows_remove
          /\ e.tag.moderation_flags.requires_authorization
    /\ authResult = Err("ModeratedTag")

\* C2: if some removed tag has a remaining (non-exempted) moderation entry
\* with that label and allows_remove = false, the call fails with ModeratedTag
\* and returns no approver list.
C2_RemoveVeto ==
    (AuthDone /\ \E e \in RemainingEntries : VetoesRemove(e))
        => (~authResult.ok /\ authResult.err = "ModeratedTag" /\ authResult.ids = <<>>)

\* a removal is vetoed while no addition is, and an approver had been collected
C2_Witness ==
    /\ AuthDone
    /\ \E e \in RemainingEntries : VetoesRemove(e)
    /\ ~\E e \in RemainingEntries : VetoesAdd(e)
    /\ \E e \in RemainingEntries :
          e.tag.label \in AddedSet /\ e.tag.moderation_flags.requires_authorization
    /\ ~authResult.ok

\* C3: the excluding organization is exempt only for its own entries: an
\* entry owned by a different organization on the same label still vetoes and
\* still contributes its organization id to the approver list, also when it
\* has the same label and flags as an entry of the excluding organization.
OtherOrgEntries == {e \in storedTags : org # None /\ e.org_id # org.id}

C3_OnlyOwnEntriesExempt ==
    (AuthDone /\ org # None) =>
        /\ (\E e \in OtherOrgEntries : VetoesAdd(e) \/ VetoesRemove(e))
               => authResult = Err("ModeratedTag")
        /\ authResult.ok =>
               \A e \in OtherOrgEntries :
                   (/\ e.tag.label \in AddedSet \cup RemovedSet
                    /\ e.tag.moderation_flags.requires_authorization)
                       => e.org_id \in Range(authResult.ids)

\* C4: with an organization given, none of the entries storage holds for it
\* can cause the failure, and its id never appears in the returned list.
C4_OwnEntriesExcluded ==
    (AuthDone /\ org # None) =>
        /\ org.id \notin Range(authResult.ids)
        /\ ~authResult.ok =>
               \E e \in OtherOrgEntries : VetoesAdd(e) \/ VetoesRemove(e)

\* the organization's own entries would veto and would ask for authorization,
\* and the call succeeds
C4_Witness ==
    /\ AuthDone
    /\ org # None
    /\ \E e \in storedTags : e.org_id = org.id /\ (VetoesAdd(e) \/ VetoesRemove(e))
    /\ \E e \in storedTags :
          /\ e.org_id = org.id
          /\ e.tag.label \in AddedSet \cup RemovedSet
          /\ e.tag.moderation_flags.requires_authorization
    /\ authResult.ok

\* C5: a change whose added and removed tags are all labels that no
\* organization moderates succeeds with an empty list, whatever policies exist
\* for other labels, unchanged tags included.
ModeratedLabels == {e.tag.label : e \in storedTags}

C5_UnmoderatedChange ==
    (AuthDone /\ (AddedSet \cup RemovedSet) \cap ModeratedLabels = {})
        => authResult = OkIds(<<>>)

\* a tag is added, none of the changed tags is moderated, and an unchanged
\* tag is under a policy that forbids adding and removing it
C5_Witness ==
    /\ AuthDone
    /\ org = None
    /\ AddedSet # {}
    /\ (AddedSet \cup RemovedSet) \cap ModeratedLabels = {}
    /\ \E e \in storedTags :
          /\ e.tag.label \in Range(old_tags) \cap Range(new_tags)
          /\ ~e.tag.moderation_flags.allows_add
          /\ ~e.tag.moderation_flags.allows_remove
          /\ e.tag.moderation_flags.requires_authorization
    /\ authResult = OkIds(<<>>)

\* C6: when no veto applies the call succeeds and returns exactly the ids of
\* the organizations owning a remaining entry with requires_authorization on an
\* added or removed tag, strictly ascending (sorted, each id once).
Approvers ==
    {e.org_id : e \in {x \in RemainingEntries :
                          /\ x.tag.label \in AddedSet \cup RemovedSet
                          /\ x.tag.moderation_flags.requires_authorization}}

C6_ApproverList ==
    (AuthDone /\ ~\E e \in RemainingEntries : VetoesAdd(e) \/ VetoesRemove(e)) =>
        /\ authResult.ok
        /\ Range(authResult.ids) = Approvers
        /\ StrictlyAscending(authResult.ids)

\* one organization must approve an added and a removed tag and is listed once
C6_Witness ==
    /\ AuthDone
    /\ authResult.ok
    /\ Len(authResult.ids) = 1
    /\ \E e1, e2 \in RemainingEntries :
          /\ e1.org_id = e2.org_id
          /\ e1.tag.label \in AddedSet /\ e1.tag.moderation_flags.requires_authorization
          /\ e2.tag.label \in RemovedSet /\ e2.tag.moderation_flags.requires_authorization


\* the outcome for given added and removed tag lists, stated over sets
OutcomeOfDiff(added, deleted) ==
    LET vetoed == \E e \in RemainingEntries :
                     \/ e.tag.label \in Range(added) /\ ~e.tag.moderation_flags.allows_add
                     \/ e.tag.label \in Range(deleted) /\ ~e.tag.moderation_flags.allows_remove
        approvers == {e.org_id : e \in {x \in RemainingEntries :
                         /\ x.tag.label \in Range(added) \cup Range(deleted)
                         /\ x.tag.moderation_flags.requires_authorization}}
    IN  IF vetoed THEN Err("ModeratedTag")
        ELSE OkIds(CHOOSE s \in Orderings(approvers) : StrictlyAscending(s))

\* a tag list in the Normalizer's canonical form: ascending without
\* duplicates, every tag non-empty, lowercase, free of whitespace and of '#'
IsCanonicalTag(t) ==
    /\ t # <<>>
    /\ \A i \in 1..Len(t) : t[i] = CharToLower(t[i]) /\ ~IsWhitespace(t[i]) /\ t[i] # ChHash
IsCanonical(tags) ==
    StrictlyAscending(tags) /\ \A i \in 1..Len(tags) : IsCanonicalTag(tags[i])

\* C7 as claimed: for all old_tags and new_tags the outcome equals the outcome
\* for (prepare_tag_list(old_tags), prepare_tag_list(new_tags)).
C7_Original ==
    AuthDone =>
        \A m \in Orderings(storedTags) :
            authResult = authorize_moderated_tags_owned_by_orgs(
                             m, prepare_tag_list(old_tags), prepare_tag_list(new_tags), org)

\* C7 as amended: the added and removed tags are computed on the inputs as
\* given, by exact string equality as tags_diff does, without normalising;
\* the outcome equals the outcome for the prepared lists when old_tags and
\* new_tags are already in canonical form.
C7_DiffsInputsAsGiven ==
    AuthDone =>
        /\ LET d == tags_diff(old_tags, new_tags)
           IN  authResult = OutcomeOfDiff(d.added, d.deleted)
        /\ (IsCanonical(old_tags) /\ IsCanonical(new_tags)) =>
               \A m \in Orderings(storedTags) :
                   authResult = authorize_moderated_tags_owned_by_orgs(
                       m, prepare_tag_list(old_tags), prepare_tag_list(new_tags), org)

\* the new tag list is the old one under another spelling (same canonical
\* form), yet a tag counts as added and the change is vetoed
C7_Witness ==
    /\ AuthDone
    /\ old_tags # <<>>
    /\ prepare_tag_list(old_tags) = prepare_tag_list(new_tags)
    /\ AddedSet # {}
    /\ authResult = Err("ModeratedTag")


(***************************************************************************)
(* query_events (query_events.rs 11-152)                                   *)
(***************************************************************************)
DEFAULT_RESULT_LIMIT == 100
MAX_RESULT_LIMIT == 500

\* mutant: the limit is not looked at
is_empty_IgnoresLimit(q) ==
    /\ q.bbox = None
    /\ q.created_by = None
    /\ q.start_min = None
    /\ q.start_max = None
    /\ q.tags = None
    /\ q.text = None

\* EventQuery::is_empty (mod.rs 82-99)
is_empty(q) ==
    /\ q.bbox = None
    /\ q.created_by = None
    /\ q.start_min = None
    /\ q.start_max = None
    /\ q.tags = None
    /\ q.text = None
    /\ q.limit = None

\* util::extract_hash_tags: the tokens introduced by '#', without the marker
RECURSIVE HashTokens(_)
HashTokens(tokens) ==
    IF tokens = <<>> THEN <<>>
    ELSE (IF Head(Head(tokens)) = ChHash /\ Len(Head(tokens)) > 1
          THEN <<Tail(Head(tokens))>> ELSE <<>>) \o HashTokens(Tail(tokens))

extract_hash_tags(text) == HashTokens(SplitWhitespace(text))

\* util::remove_hash_tags: the text without its '#' tokens
RECURSIVE JoinPlain(_)
JoinPlain(tokens) ==
    IF tokens = <<>> THEN <<>>
    ELSE IF Head(Head(tokens)) = ChHash THEN JoinPlain(Tail(tokens))
    ELSE LET rest == JoinPlain(Tail(tokens))
         IN  IF rest = <<>> THEN Head(tokens) ELSE Head(tokens) \o <<ChSpace>> \o rest

remove_hash_tags(text) == JoinPlain(SplitWhitespace(text))

\* util::filter::split_text_to_words
split_text_to_words(text) == SplitWhitespace(text)

\* util::filter::extend_bbox: the box enlarged on every side
extend_bbox(bbox) ==
    [sw |-> <<bbox.sw[1] - 1, bbox.sw[2] - 1>>, ne |-> <<bbox.ne[1] + 1, bbox.ne[2] + 1>>]

\* lines 40-50: the hashtags of the text, then the explicit tags
QueryHashTags(q) ==
    (IF q.text = None THEN <<>> ELSE extract_hash_tags(q.text.some))
        \o (IF q.tags = None THEN <<>> ELSE q.tags.some)

\* lines 52-62: the text without hashtags, absent when nothing is left
QueryText(q) ==
    IF q.text = None THEN None
    ELSE LET text == remove_hash_tags(q.text.some)
         IN  IF Trim(text) = <<>> THEN None ELSE Some(text)

\* lines 64-68
QueryTextTags(q) ==
    IF QueryText(q) = None THEN <<>> ELSE split_text_to_words(QueryText(q).some)

\* lines 70-80
visible_events_query(q) ==
    [include_bbox |-> q.bbox,
     exclude_bbox |-> None,
     categories   |-> <<"ID_EVENT">>,
     hash_tags    |-> QueryHashTags(q),
     text_tags    |-> QueryTextTags(q),
     text         |-> QueryText(q),
     ts_min_lb    |-> q.start_min,
     ts_min_ub    |-> q.start_max]

\* mutant: the second query does not exclude the visible box
invisible_events_query_NoExclusion(q) ==
    [visible_events_query(q) EXCEPT !.include_bbox = Some(extend_bbox(q.bbox.some))]

\* lines 113-117
invisible_events_query(q) ==
    [visible_events_query(q) EXCEPT
        !.include_bbox = Some(extend_bbox(q.bbox.some)),
        !.exclude_bbox = visible_events_query(q).include_bbox]

\* mutant: a limit above the maximum is passed on unchanged
search_limit_NoClamp(limit) ==
    IF limit # None
    THEN IF limit.some <= 0 THEN [ok |-> FALSE, v |-> 0] ELSE [ok |-> TRUE, v |-> limit.some]
    ELSE [ok |-> TRUE, v |-> DEFAULT_RESULT_LIMIT]

\* mutant: only a negative limit is rejected
search_limit_ZeroAccepted(limit) ==
    IF limit # None
    THEN IF limit.some > MAX_RESULT_LIMIT THEN [ok |-> TRUE, v |-> MAX_RESULT_LIMIT]
         ELSE IF limit.some < 0 THEN [ok |-> FALSE, v |-> 0]
         ELSE [ok |-> TRUE, v |-> limit.some]
    ELSE [ok |-> TRUE, v |-> DEFAULT_RESULT_LIMIT]

\* lines 82-101: ok = FALSE is the return of Err(InvalidLimit)
search_limit(limit) ==
    IF limit # None
    THEN IF limit.some > MAX_RESULT_LIMIT THEN [ok |-> TRUE, v |-> MAX_RESULT_LIMIT]
         ELSE IF limit.some <= 0 THEN [ok |-> FALSE, v |-> 0]
         ELSE [ok |-> TRUE, v |-> limit.some]
    ELSE [ok |-> TRUE, v |-> DEFAULT_RESULT_LIMIT]

\* events.sort_by(|a, b| a.start.cmp(&b.start)): a stable sort
RECURSIVE InsertByStart(_, _)
InsertByStart(e, s) ==
    IF s = <<>> THEN <<e>>
    ELSE IF s[Len(s)].start <= e.start THEN Append(s, e)
    ELSE Append(InsertByStart(e, SubSeq(s, 1, Len(s) - 1)), s[Len(s)])

\* mutant: the events are returned in the order storage gave them
SortByStart_AsResolved(events) == events

RECURSIVE SortByStart(_)
SortByStart(events) ==
    IF events = <<>> THEN <<>>
    ELSE InsertByStart(events[Len(events)], SortByStart(SubSeq(events, 1, Len(events) - 1)))

OkEvents(events) == [ok |-> TRUE, err |-> "", events |-> events]
ErrQ(e) == [ok |-> FALSE, err |-> e, events |-> <<>>]

(***************************************************************************)
(* Storage and index, as query_events sees them                            *)
(***************************************************************************)
MaxHits == 2

EventIds == {1, 2, 3}
UserEmails == {"u1"}
ApiTokens == {"good"}

\* Event { id, start, created_by }
AllEvents ==
    {[id |-> 1, start |-> 2, created_by |-> Some("u1")],
     [id |-> 2, start |-> 1, created_by |-> None],
     [id |-> 3, start |-> 1, created_by |-> Some("u9")]}

\* db.all_events_chronologically(): every event, by start time
all_events_chronologically(db) ==
    {s \in Orderings(db) : \A i \in 1..(Len(s) - 1) : s[i].start <= s[i + 1].start}

\* db.get_events(ids): the stored events with one of the ids
get_events(db, ids) == Orderings({e \in db : e.id \in Range(ids)})

\* db.try_get_user_by_email(email)
try_get_user_by_email(email) ==
    IF email \in UserEmails THEN Some([email |-> email]) ELSE None

\* db.get_org_by_api_token(token): the organization, or RepoError::NotFound
\* when no organization has the token
get_org_by_api_token(tok) == IF tok \in ApiTokens THEN "Ok" ELSE "NotFound"

\* the token argument: absent, the token of an organization, or another one
Tokens == {None, Some("good"), Some("bad")}

AllEventQueries ==
    [bbox       : {None, Some([sw |-> <<0, 0>>, ne |-> <<2, 2>>])},
     created_by : {None, Some("u1"), Some("u9")},
     start_min  : {None, Some(1)},
     start_max  : {None, Some(2)},
     tags       : {None, Some(<< <<ChLowerA>> >>)},
     text       : {None, Some(<<ChHash, ChLowerA>>),
                   Some(<<ChLowerB, ChSpace, ChHash, ChLowerA>>)},
     limit      : {None, Some(0), Some(1), Some(2), Some(500), Some(501), Some(10000)}]

\* index.query_ids(query, limit): some identifiers, or an error
IdLists ==
    {l \in SeqsUpTo(EventIds, MaxHits) : \A i, j \in 1..Len(l) : l[i] = l[j] => i = j}
IdsOk(ids) == [ok |-> TRUE, ids |-> ids]
IndexError == [ok |-> FALSE, ids |-> <<>>]

\* the filters that are only handed on to the index
PassedOnFields == {"start_min", "start_max", "tags", "text"}

\* every value of each field; of the filters handed on to the index, none,
\* any single one, or all of them are set
EventQueries ==
    {q \in AllEventQueries :
        \/ \A f, g \in PassedOnFields : (q[f] # None /\ q[g] # None) => f = g
        \/ \A f \in PassedOnFields : q[f] # None}

\* no authorizer call is part of the runs of query_events
IdleAuth ==
    /\ storedTags = {}
    /\ old_tags = <<>>
    /\ new_tags = <<>>
    /\ org = None
    /\ authResult = NoResult

InitQuery ==
    /\ IdleAuth
    /\ IdleTags
    /\ IdleDb
    /\ query \in EventQueries
    /\ token \in Tokens
    /\ dbEvents = AllEvents
    /\ calls = <<>>
    /\ qResult = NoResult
    /\ prev = None

\* the records of the calls made
CallAllEvents(ret) == [call |-> "all_events_chronologically", ret |-> ret]
CallGetOrg(tok, ret) == [call |-> "get_org_by_api_token", token |-> tok, ret |-> ret]
CallQueryIds(q, limit, ret) == [call |-> "query_ids", query |-> q, limit |-> limit, ret |-> ret]
CallGetEvents(ids, ret) == [call |-> "get_events", ids |-> ids, ret |-> ret]
CallGetUser(email, ret) == [call |-> "try_get_user_by_email", email |-> email, ret |-> ret]

\* two logged calls made the same request
SameRequest(c, d) ==
    /\ c.call = d.call
    /\ CASE c.call = "get_org_by_api_token" -> c.token = d.token
         [] c.call = "query_ids" -> c.query = d.query /\ c.limit = d.limit
         [] c.call = "get_events" -> c.ids = d.ids
         [] c.call = "try_get_user_by_email" -> c.email = d.email
         [] OTHER -> TRUE

\* storage and index are unchanged since the earlier call (if there was
\* one): a request made then is answered now as it was answered then
AnsweredAsBefore(c) ==
    prev # None =>
        \A j \in 1..Len(prev.some.calls) :
            SameRequest(c, prev.some.calls[j]) => c.ret = prev.some.calls[j].ret

\* lines 17-20
QueryBypass ==
    /\ qResult = NoResult
    /\ is_empty(query)
    /\ \E events \in all_events_chronologically(dbEvents) :
          /\ AnsweredAsBefore(CallAllEvents(events))
          /\ calls' = <<CallAllEvents(events)>>
          /\ qResult' = OkEvents(events)
    /\ UNCHANGED <<query, token, dbEvents, prev>>
    /\ UNCHANGED <<authVars, tagVars, dbVars>>

\* lines 30-38, the calls made when the token lookup succeeds or is not needed
TokenCalls ==
    IF token = None THEN {<<>>}
    ELSE IF get_org_by_api_token(token.some) = "Ok"
         THEN {<<CallGetOrg(token.some, "Ok")>>}
         ELSE {}

\* lines 30-38: the token is not the token of an organization
QueryTokenRejected ==
    /\ qResult = NoResult
    /\ ~is_empty(query)
    /\ token # None
    /\ get_org_by_api_token(token.some) # "Ok"
    /\ calls' = <<CallGetOrg(token.some, get_org_by_api_token(token.some))>>
    /\ qResult' = ErrQ(IF get_org_by_api_token(token.some) = "NotFound"
                       THEN "Unauthorized" ELSE "Repo")
    /\ UNCHANGED <<query, token, dbEvents, prev>>
    /\ UNCHANGED <<authVars, tagVars, dbVars>>

\* lines 82-91
QueryInvalidLimit ==
    /\ qResult = NoResult
    /\ ~is_empty(query)
    /\ ~search_limit(query.limit).ok
    /\ \E pre \in TokenCalls :
          /\ calls' = pre
          /\ qResult' = ErrQ("InvalidLimit")
    /\ UNCHANGED <<query, token, dbEvents, prev>>
    /\ UNCHANGED <<authVars, tagVars, dbVars>>

\* lines 106-108: the visible query fails
QueryVisibleFails ==
    /\ qResult = NoResult
    /\ ~is_empty(query)
    /\ search_limit(query.limit).ok
    /\ AnsweredAsBefore(CallQueryIds(visible_events_query(query),
                                     search_limit(query.limit).v, IndexError))
    /\ \E pre \in TokenCalls :
          /\ calls' = Append(pre, CallQueryIds(visible_events_query(query),
                                               search_limit(query.limit).v, IndexError))
          /\ qResult' = ErrQ("Repo")
    /\ UNCHANGED <<query, token, dbEvents, prev>>
    /\ UNCHANGED <<authVars, tagVars, dbVars>>

\* mutant: the second query is made whenever a bounding box is given
NeedsHalo_BboxOnly(visible_event_ids) == query.bbox # None

\* lines 111-112: whether the second query is made
NeedsHalo(visible_event_ids) ==
    query.bbox # None /\ Len(visible_event_ids) < search_limit(query.limit).v

\* mutant: the second query is given the whole limit again
invisible_search_limit_Whole(limit, visible_event_ids) == limit

\* line 121: the limit of the second query
invisible_search_limit(limit, visible_event_ids) == limit - Len(visible_event_ids)

\* lines 138-147: the creator filter, with the lookup it makes
CreatorCalls ==
    IF query.created_by = None THEN <<>>
    ELSE <<CallGetUser(query.created_by.some, try_get_user_by_email(query.created_by.some))>>

\* mutant: the events are filtered by the given email, without the account
FilterByCreator_NoAccount(events) ==
    IF query.created_by = None THEN events
    ELSE SelectSeq(events, LAMBDA e : e.created_by = query.created_by)

FilterByCreator(events) ==
    IF query.created_by = None THEN events
    ELSE LET user == try_get_user_by_email(query.created_by.some)
         IN  IF user # None
             THEN SelectSeq(events, LAMBDA e : e.created_by = Some(user.some.email))
             ELSE <<>>

\* mutant: a failed halo query counts as an empty answer
QueryHaloFails_PartialResult ==
    /\ qResult = NoResult
    /\ ~is_empty(query)
    /\ search_limit(query.limit).ok
    /\ \E pre \in TokenCalls, visible_event_ids \in IdLists :
          /\ NeedsHalo(visible_event_ids)
          /\ \E events \in get_events(dbEvents, visible_event_ids) :
                /\ calls' = pre \o
                      <<CallQueryIds(visible_events_query(query), search_limit(query.limit).v,
                                     IdsOk(visible_event_ids)),
                        CallQueryIds(invisible_events_query(query),
                                     invisible_search_limit(search_limit(query.limit).v,
                                                            visible_event_ids),
                                     IndexError),
                        CallGetEvents(visible_event_ids, events)>>
                      \o CreatorCalls
                /\ qResult' = OkEvents(SortByStart(FilterByCreator(events)))
    /\ UNCHANGED <<query, token, dbEvents, prev>>
    /\ UNCHANGED <<authVars, tagVars, dbVars>>

\* lines 118-123: the halo query fails
QueryHaloFails ==
    /\ qResult = NoResult
    /\ ~is_empty(query)
    /\ search_limit(query.limit).ok
    /\ \E pre \in TokenCalls, visible_event_ids \in IdLists :
          /\ NeedsHalo(visible_event_ids)
          /\ AnsweredAsBefore(CallQueryIds(visible_events_query(query),
                                           search_limit(query.limit).v,
                                           IdsOk(visible_event_ids)))
          /\ AnsweredAsBefore(CallQueryIds(invisible_events_query(query),
                                           invisible_search_limit(
                                               search_limit(query.limit).v,
                                               visible_event_ids),
                                           IndexError))
          /\ calls' = pre \o
                <<CallQueryIds(visible_events_query(query), search_limit(query.limit).v,
                               IdsOk(visible_event_ids)),
                  CallQueryIds(invisible_events_query(query),
                               invisible_search_limit(search_limit(query.limit).v,
                                                      visible_event_ids),
                               IndexError)>>
          /\ qResult' = ErrQ("Repo")
    /\ UNCHANGED <<query, token, dbEvents, prev>>
    /\ UNCHANGED <<authVars, tagVars, dbVars>>

\* mutant: the resolved events pass through a hash map, whose iteration order
\* differs from call to call, before they are sorted
QueryCompletes_HashOrder ==
    /\ qResult = NoResult
    /\ ~is_empty(query)
    /\ search_limit(query.limit).ok
    /\ LET limit   == search_limit(query.limit).v
           visible == visible_events_query(query)
       IN  \E pre \in TokenCalls, visible_event_ids \in IdLists :
           /\ AnsweredAsBefore(CallQueryIds(visible, limit, IdsOk(visible_event_ids)))
           /\ \E invisible_event_ids \in
                    (IF NeedsHalo(visible_event_ids) THEN IdLists ELSE {<<>>}) :
              LET event_ids == visible_event_ids \o invisible_event_ids
                  haloCalls ==
                      IF NeedsHalo(visible_event_ids)
                      THEN <<CallQueryIds(invisible_events_query(query),
                                          invisible_search_limit(limit, visible_event_ids),
                                          IdsOk(invisible_event_ids))>>
                      ELSE <<>>
              IN  /\ \A h \in 1..Len(haloCalls) : AnsweredAsBefore(haloCalls[h])
                  /\ \E events \in get_events(dbEvents, event_ids) :
                        /\ AnsweredAsBefore(CallGetEvents(event_ids, events))
                        /\ calls' = pre
                               \o <<CallQueryIds(visible, limit, IdsOk(visible_event_ids))>>
                               \o haloCalls
                               \o <<CallGetEvents(event_ids, events)>>
                               \o CreatorCalls
                        /\ \E hashed \in Orderings(Range(events)) :
                              qResult' = OkEvents(SortByStart(FilterByCreator(hashed)))
    /\ UNCHANGED <<query, token, dbEvents, prev>>
    /\ UNCHANGED <<authVars, tagVars, dbVars>>

\* lines 106-151: both index queries (or the one needed) succeed
QueryCompletes ==
    /\ qResult = NoResult
    /\ ~is_empty(query)
    /\ search_limit(query.limit).ok
    /\ LET limit   == search_limit(query.limit).v
           visible == visible_events_query(query)
       IN  \E pre \in TokenCalls, visible_event_ids \in IdLists :
           /\ AnsweredAsBefore(CallQueryIds(visible, limit, IdsOk(visible_event_ids)))
           /\ \E invisible_event_ids \in
                    (IF NeedsHalo(visible_event_ids) THEN IdLists ELSE {<<>>}) :
              LET event_ids == visible_event_ids \o invisible_event_ids
                  haloCalls ==
                      IF NeedsHalo(visible_event_ids)
                      THEN <<CallQueryIds(invisible_events_query(query),
                                          invisible_search_limit(limit, visible_event_ids),
                                          IdsOk(invisible_event_ids))>>
                      ELSE <<>>
              IN  /\ \A h \in 1..Len(haloCalls) : AnsweredAsBefore(haloCalls[h])
                  /\ \E events \in get_events(dbEvents, event_ids) :
                        /\ AnsweredAsBefore(CallGetEvents(event_ids, events))
                        /\ calls' = pre
                               \o <<CallQueryIds(visible, limit, IdsOk(visible_event_ids))>>
                               \o haloCalls
                               \o <<CallGetEvents(event_ids, events)>>
                               \o CreatorCalls
                        /\ qResult' = OkEvents(SortByStart(FilterByCreator(events)))
    /\ UNCHANGED <<query, token, dbEvents, prev>>
    /\ UNCHANGED <<authVars, tagVars, dbVars>>

NextQuery ==
    \/ QueryBypass
    \/ QueryTokenRejected
    \/ QueryInvalidLimit
    \/ QueryVisibleFails
    \/ QueryHaloFails
    \/ QueryCompletes

SpecQuery == InitQuery /\ [][NextQuery]_vars

\* the queries that are repeated: the filters handed on to the index are left
\* out, the limit is absent, 0 or 2
RepeatQueries ==
    {q \in EventQueries :
        /\ \A f \in PassedOnFields : q[f] = None
        /\ q.limit \in {None, Some(0), Some(2)}}

InitQueryRepeat ==
    /\ IdleAuth
    /\ IdleTags
    /\ IdleDb
    /\ query \in RepeatQueries
    /\ token \in Tokens
    /\ dbEvents = AllEvents
    /\ calls = <<>>
    /\ qResult = NoResult
    /\ prev = None

\* the caller calls query_events once more with the same EventQuery, with
\* any token, while storage and index stay as they are
RepeatCall ==
    /\ qResult # NoResult
    /\ prev = None
    /\ prev' = Some([token |-> token, calls |-> calls, result |-> qResult])
    /\ token' \in Tokens
    /\ calls' = <<>>
    /\ qResult' = NoResult
    /\ UNCHANGED <<query, dbEvents>>
    /\ UNCHANGED <<authVars, tagVars, dbVars>>

NextQueryRepeat ==
    \/ NextQuery
    \/ RepeatCall

\* query_events called twice with the same EventQuery on unchanged data
SpecQueryRepeat == InitQueryRepeat /\ [][NextQueryRepeat]_vars


(***************************************************************************)
(* Properties of query_events                                              *)
(***************************************************************************)
QueryDone == qResult # NoResult

CallsNamed(name) == {i \in 1..Len(calls) : calls[i].call = name}

\* every field of the EventQuery is absent
NoFieldSet ==
    \A f \in {"bbox", "created_by", "start_min", "start_max", "tags", "text", "limit"} :
        query[f] = None

\* C8: an entirely empty EventQuery takes the bypass path: the result is what
\* storage returns as the full chronological collection and the index is not
\* called; a query with any field set (a limit alone included) does not.
C8_EmptyQueryBypass ==
    QueryDone =>
        /\ NoFieldSet =>
              /\ Len(calls) = 1
              /\ calls[1].call = "all_events_chronologically"
              /\ calls[1].ret \in all_events_chronologically(dbEvents)
              /\ qResult = OkEvents(calls[1].ret)
        /\ ~NoFieldSet => CallsNamed("all_events_chronologically") = {}

\* the empty query returned every stored event without an index call
C8_Witness ==
    /\ QueryDone
    /\ NoFieldSet
    /\ token # None
    /\ qResult.ok
    /\ Len(qResult.events) = Cardinality(dbEvents)
    /\ CallsNamed("query_ids") = {}

\* whether the organization lookup of a supplied token failed
TokenLookupFailed ==
    /\ token # None
    /\ CallsNamed("get_org_by_api_token") # {}
    /\ \A i \in CallsNamed("get_org_by_api_token") : calls[i].ret # "Ok"

C10_EffectiveLimit ==
    QueryDone =>
        \A i \in CallsNamed("query_ids") :
            calls[i].query.exclude_bbox = None =>
                /\ calls[i].limit =
                       (IF query.limit = None THEN 100
                        ELSE IF query.limit.some > 500 THEN 500 ELSE query.limit.some)
                /\ calls[i].limit \in 1..500

\* a requested limit of 10000 reaches the index as 500
C10_Witness ==
    /\ QueryDone
    /\ query.limit = Some(10000)
    /\ \E i \in CallsNamed("query_ids") :
          calls[i].query.exclude_bbox = None /\ calls[i].limit = 500

\* the effective limit of a call that got past the limit check
EffectiveLimit ==
    IF query.limit = None THEN DEFAULT_RESULT_LIMIT
    ELSE IF query.limit.some > MAX_RESULT_LIMIT THEN MAX_RESULT_LIMIT ELSE query.limit.some

\* the positions of the index executions in the call log, in order
IndexCalls == CallsNamed("query_ids")
FirstIndexCall == CHOOSE i \in IndexCalls : \A j \in IndexCalls : i <= j

\* whether the call got as far as the index: not the bypass, the token
\* accepted, the limit valid
ReachesIndex ==
    /\ ~NoFieldSet
    /\ token # None => token.some \in ApiTokens
    /\ query.limit # None => query.limit.some > 0

\* C11: the visible query is executed first, with the full effective limit;
\* the halo query is executed, right after it, if and only if a bounding box
\* was supplied and the visible phase returned fewer identifiers than the
\* effective limit, and then with limit (effective limit - number of visible
\* identifiers); a search makes at most two index executions.
C11_TwoPhaseOrder ==
    QueryDone =>
        /\ Cardinality(IndexCalls) <= 2
        /\ ReachesIndex <=> IndexCalls # {}
        /\ IndexCalls # {} =>
              LET v == calls[FirstIndexCall] IN
              /\ v.query.exclude_bbox = None
              /\ v.query.include_bbox = query.bbox
              /\ v.limit = EffectiveLimit
              /\ (Cardinality(IndexCalls) = 2) <=>
                     (v.ret.ok /\ query.bbox # None /\ Len(v.ret.ids) < EffectiveLimit)
              /\ Cardinality(IndexCalls) = 2 =>
                     /\ IndexCalls = {FirstIndexCall, FirstIndexCall + 1}
                     /\ calls[FirstIndexCall + 1].query.exclude_bbox # None
                     /\ calls[FirstIndexCall + 1].limit = EffectiveLimit - Len(v.ret.ids)

\* with limit 2 the visible phase returned one identifier and the halo query
\* was executed with limit 1
C11_Witness ==
    /\ QueryDone
    /\ query.limit = Some(2)
    /\ Cardinality(IndexCalls) = 2
    /\ Len(calls[FirstIndexCall].ret.ids) = 1
    /\ calls[FirstIndexCall + 1].limit = 1
    /\ qResult.ok

\* the visible phase filled the limit and no halo query was executed
\* although a bounding box was supplied
C11_NoHaloWhenFull ==
    /\ QueryDone
    /\ query.bbox # None
    /\ Cardinality(IndexCalls) = 1
    /\ calls[FirstIndexCall].ret.ok
    /\ Len(calls[FirstIndexCall].ret.ids) = EffectiveLimit

\* every index execution returned at most as many identifiers as the limit
\* it was given
IndexHonoursLimits ==
    \A i \in IndexCalls : Len(calls[i].ret.ids) <= calls[i].limit

\* s is an initial segment of t
IsPrefix(s, t) == Len(s) <= Len(t) /\ SubSeq(t, 1, Len(s)) = s

\* C12: provided each index execution returns at most as many identifiers as
\* the limit it was given, the identifiers handed to storage are the visible
\* ones followed by the halo ones, at most as many as the effective limit, and
\* the returned result is no longer than the effective limit.
C12_WithinLimit ==
    (QueryDone /\ IndexHonoursLimits) =>
        /\ \A g \in CallsNamed("get_events") :
              /\ IsPrefix(calls[FirstIndexCall].ret.ids, calls[g].ids)
              /\ Len(calls[g].ids) <= EffectiveLimit
        /\ (qResult.ok /\ ~NoFieldSet) => Len(qResult.events) <= EffectiveLimit

\* limit 2: one visible and one halo identifier, both events returned
C12_Witness ==
    /\ QueryDone
    /\ IndexHonoursLimits
    /\ query.limit = Some(2)
    /\ Cardinality(IndexCalls) = 2
    /\ Len(calls[FirstIndexCall].ret.ids) = 1
    /\ Len(calls[FirstIndexCall + 1].ret.ids) = 1
    /\ qResult.ok
    /\ Len(qResult.events) = 2

\* limit 2: the visible phase returned two identifiers, the halo phase was
\* not invoked and exactly two events are returned
C12_NoHaloAtLimit ==
    /\ QueryDone
    /\ IndexHonoursLimits
    /\ query.limit = Some(2)
    /\ query.bbox # None
    /\ Cardinality(IndexCalls) = 1
    /\ qResult.ok
    /\ Len(qResult.events) = 2

\* an index that returns more than it was asked for: the result is longer
\* than the effective limit
C12_IndexOverLimit ==
    /\ QueryDone
    /\ ~IndexHonoursLimits
    /\ qResult.ok
    /\ Len(qResult.events) > EffectiveLimit

\* the fields of an IndexQuery other than the two regions
FilterFields == {"categories", "hash_tags", "text_tags", "text", "ts_min_lb", "ts_min_ub"}

\* box b lies within box c, and c is larger
StrictlyEncloses(c, b) ==
    /\ c.sw[1] <= b.sw[1] /\ c.sw[2] <= b.sw[2]
    /\ c.ne[1] >= b.ne[1] /\ c.ne[2] >= b.ne[2]
    /\ c # b

\* C13: the visible IndexQuery has the supplied box as inclusion region and no
\* exclusion region; the halo IndexQuery has the enlarged box as inclusion
\* region, exactly the supplied box as exclusion region, and every other
\* field as in the visible IndexQuery.
C13_HaloQueryShape ==
    (QueryDone /\ IndexCalls # {}) =>
        LET v == calls[FirstIndexCall].query IN
        /\ v.include_bbox = query.bbox
        /\ v.exclude_bbox = None
        /\ \A i \in IndexCalls \ {FirstIndexCall} :
              LET h == calls[i].query IN
              /\ query.bbox # None
              /\ h.include_bbox = Some(extend_bbox(query.bbox.some))
              /\ StrictlyEncloses(h.include_bbox.some, query.bbox.some)
              /\ h.exclude_bbox = query.bbox
              /\ \A f \in FilterFields : h[f] = v[f]

\* a halo query was executed for a query with hashtags, text and both
\* start-time bounds
C13_Witness ==
    /\ QueryDone
    /\ Cardinality(IndexCalls) = 2
    /\ LET h == calls[FirstIndexCall + 1].query IN
       /\ h.hash_tags # <<>>
       /\ h.text # None
       /\ h.text_tags # <<>>
       /\ h.ts_min_lb # None
       /\ h.ts_min_ub # None
       /\ h.exclude_bbox # None

\* the index executions that failed
FailedIndexCalls == {i \in IndexCalls : ~calls[i].ret.ok}

\* C14: if an index execution fails, in the visible or in the halo phase, the
\* whole call fails: no list is returned, nothing is resolved from storage
\* and no further call is made after the failure.
C14_IndexFailureFailsCall ==
    (QueryDone /\ FailedIndexCalls # {}) =>
        /\ ~qResult.ok
        /\ qResult.events = <<>>
        /\ CallsNamed("get_events") = {}
        /\ CallsNamed("try_get_user_by_email") = {}
        /\ FailedIndexCalls = {Len(calls)}

\* the halo query failed after the visible query had returned identifiers
C14_Witness ==
    /\ QueryDone
    /\ Cardinality(IndexCalls) = 2
    /\ calls[FirstIndexCall].ret.ok
    /\ calls[FirstIndexCall].ret.ids # <<>>
    /\ ~calls[FirstIndexCall + 1].ret.ok
    /\ ~qResult.ok

\* the visible query failed
C14_VisibleFailure ==
    /\ QueryDone
    /\ query.bbox # None
    /\ Cardinality(IndexCalls) = 1
    /\ ~calls[FirstIndexCall].ret.ok
    /\ ~qResult.ok

\* the creator lookup of the call and the events storage resolved
CreatorLookups == CallsNamed("try_get_user_by_email")
ResolvedEvents == UNION {Range(calls[g].ret) : g \in CallsNamed("get_events")}

\* C15: with a creator filter, a call that gets as far as the creator lookup
\* succeeds; if no account exists for the email the result is empty, and if
\* one exists the result consists of exactly the resolved events whose
\* created_by is that account's email.
C15_CreatorFilter ==
    (QueryDone /\ query.created_by # None) =>
        /\ (CallsNamed("get_events") # {}) <=> (CreatorLookups # {})
        /\ CreatorLookups # {} =>
              /\ qResult.ok
              /\ \A c \in CreatorLookups :
                    /\ calls[c].email = query.created_by.some
                    /\ IF calls[c].ret = None
                       THEN qResult.events = <<>>
                       ELSE LET mine == {e \in ResolvedEvents :
                                            e.created_by = Some(calls[c].ret.some.email)}
                            IN  /\ Range(qResult.events) = mine
                                /\ Len(qResult.events) = Cardinality(mine)

\* no account exists for the email, storage resolved an event attributed to
\* that very email, and the call succeeds with an empty result
C15_Witness ==
    /\ QueryDone
    /\ query.created_by # None
    /\ query.created_by.some \notin UserEmails
    /\ \E e \in ResolvedEvents : e.created_by = query.created_by
    /\ qResult = OkEvents(<<>>)

\* the account exists: its event is returned, the others resolved are not
C15_KnownCreator ==
    /\ QueryDone
    /\ query.created_by # None
    /\ query.created_by.some \in UserEmails
    /\ Cardinality(ResolvedEvents) >= 2
    /\ qResult.ok
    /\ Len(qResult.events) = 1

\* a sequence of events ordered by non-decreasing start time
Chronological(events) ==
    \A i \in 1..(Len(events) - 1) : events[i].start <= events[i + 1].start

\* C16: every successfully returned sequence of events is ordered by
\* non-decreasing start time, on the indexed path, in whatever order the index
\* returned the identifiers and storage the events, and on the bypass path.
C16_ChronologicalResult ==
    (QueryDone /\ qResult.ok) => Chronological(qResult.events)

\* indexed path: storage resolved the events out of order, and the result
\* has them in order
C16_Witness ==
    /\ QueryDone
    /\ qResult.ok
    /\ Len(qResult.events) >= 2
    /\ \E g \in CallsNamed("get_events") : ~Chronological(calls[g].ret)
    /\ Chronological(qResult.events)

\* bypass path: all the events, in order
C16_BypassInOrder ==
    /\ QueryDone
    /\ NoFieldSet
    /\ qResult.ok
    /\ Len(qResult.events) = Cardinality(dbEvents)
    /\ Chronological(qResult.events)

DiffStrings == {<<ChLowerA>>, <<ChLowerB>>, <<ChUpperA>>}
DiffLists == SeqsUpTo(DiffStrings, MaxTags)

InitDiff ==
    /\ IdleAuth
    /\ IdleQuery
    /\ IdleDb
    /\ diff_old \in DiffLists
    /\ diff_new \in DiffLists
    /\ change_set = NoResult
    /\ raw_tags = <<>>
    /\ prepared = NoResult

TagsDiff ==
    /\ change_set = NoResult
    /\ change_set' = tags_diff(diff_old, diff_new)
    /\ UNCHANGED <<diff_old, diff_new, raw_tags, prepared>>
    /\ UNCHANGED <<authVars, queryVars, dbVars>>

NextDiff == TagsDiff

SpecDiff == InitDiff /\ [][NextDiff]_vars

\* the raw strings prepare_tag_list is given:
\* "", " ", "#", "a", "A", "b", "#a b", "b A", " a# "
RawStrings ==
    {<<>>, <<ChSpace>>, <<ChHash>>, <<ChLowerA>>, <<ChUpperA>>, <<ChLowerB>>,
     <<ChHash, ChLowerA, ChSpace, ChLowerB>>, <<ChLowerB, ChSpace, ChUpperA>>,
     <<ChSpace, ChLowerA, ChHash, ChSpace>>}
RawInputs == SeqsUpTo(RawStrings, MaxTags)

InitPrepare ==
    /\ IdleAuth
    /\ IdleQuery
    /\ IdleDb
    /\ diff_old = <<>>
    /\ diff_new = <<>>
    /\ change_set = NoResult
    /\ raw_tags \in RawInputs
    /\ prepared = NoResult

PrepareTagList ==
    /\ prepared = NoResult
    /\ prepared' = [tags |-> prepare_tag_list(raw_tags)]
    /\ UNCHANGED <<diff_old, diff_new, change_set, raw_tags>>
    /\ UNCHANGED <<authVars, queryVars, dbVars>>

NextPrepare == PrepareTagList

SpecPrepare == InitPrepare /\ [][NextPrepare]_vars

(***************************************************************************)
(* Properties of tags_diff                                                 *)
(***************************************************************************)
DiffDone == change_set # NoResult

\* the positions of s whose element does not occur in t
AbsentPositions(s, t) == {i \in 1..Len(s) : s[i] \notin Range(t)}

\* the k-th position, in ascending order, of the set of positions I
NthPosition(I, k) == CHOOSE i \in I : Cardinality({j \in I : j < i}) = k - 1

\* r lists, in the order of s, the elements of s that do not occur in t
IsAbsentSubsequence(r, s, t) ==
    /\ Len(r) = Cardinality(AbsentPositions(s, t))
    /\ \A k \in 1..Len(r) : r[k] = s[NthPosition(AbsentPositions(s, t), k)]

\* C18: added is the subsequence of new of the elements absent from old, in
\* new's order, and deleted the subsequence of old of the elements absent from
\* new, in old's order; added and old are disjoint, deleted and new are
\* disjoint, and (old \ deleted) with added is new, as sets.
C18_TagsDiff ==
    DiffDone =>
        /\ IsAbsentSubsequence(change_set.added, diff_new, diff_old)
        /\ IsAbsentSubsequence(change_set.deleted, diff_old, diff_new)
        /\ Range(change_set.added) \cap Range(diff_old) = {}
        /\ Range(change_set.deleted) \cap Range(diff_new) = {}
        /\ (Range(diff_old) \ Range(change_set.deleted)) \cup Range(change_set.added)
              = Range(diff_new)

\* a tag is kept, one is added and one is deleted
C18_Witness ==
    /\ DiffDone
    /\ Range(diff_old) \cap Range(diff_new) # {}
    /\ change_set.added # <<>>
    /\ change_set.deleted # <<>>

\* the cases of test_tag_diff (util.rs 371-388)
C18_TestTagDiff ==
    LET a == <<ChLowerA>>
        b == <<ChLowerB>>
    IN  /\ tags_diff(<<>>, <<b>>) = [added |-> <<b>>, deleted |-> <<>>]
        /\ tags_diff(<<a>>, <<>>) = [added |-> <<>>, deleted |-> <<a>>]
        /\ tags_diff(<<a>>, <<b>>) = [added |-> <<b>>, deleted |-> <<a>>]
        /\ tags_diff(<<a, b>>, <<b>>) = [added |-> <<>>, deleted |-> <<a>>]

(***************************************************************************)
(* Properties of prepare_tag_list                                          *)
(***************************************************************************)
PrepareDone == prepared # NoResult
Output == prepared.tags

\* a raw string that holds nothing but whitespace and the reserved character
ReducesToNothing(t) == \A i \in 1..Len(t) : IsWhitespace(t[i]) \/ t[i] = ChHash

\* C19: the output is sorted ascending without duplicates, and every element
\* is non-empty, lowercase, free of whitespace and free of '#'; inputs that
\* reduce to nothing are left out, and if all of them do the output is empty.
C19_CanonicalOutput ==
    PrepareDone =>
        /\ StrictlyAscending(Output)
        /\ \A i \in 1..Len(Output) : IsCanonicalTag(Output[i])
        /\ (\A i \in 1..Len(raw_tags) : ReducesToNothing(raw_tags[i])) <=> Output = <<>>

\* an input with a string that reduces to nothing and a string with an
\* uppercase letter: two tags come out
C19_Witness ==
    /\ PrepareDone
    /\ \E i \in 1..Len(raw_tags) : raw_tags[i] # <<>> /\ ReducesToNothing(raw_tags[i])
    /\ \E i \in 1..Len(raw_tags) : \E j \in 1..Len(raw_tags[i]) : raw_tags[i][j] = ChUpperA
    /\ Len(Output) = 2

\* the arrangements of the sequence s
Arrangements(s) ==
    {[i \in 1..Len(s) |-> s[f[i]]] :
        f \in {g \in [1..Len(s) -> 1..Len(s)] : \A i, j \in 1..Len(s) : g[i] = g[j] => i = j}}

\* C20: preparing the output again leaves it as it is, and every arrangement
\* of the same input strings gives the same output.
C20_IdempotentOrderInsensitive ==
    PrepareDone =>
        /\ prepare_tag_list(Output) = Output
        /\ \A p \in Arrangements(raw_tags) : prepare_tag_list(p) = Output

\* two different raw strings, neither in canonical form, give two tags
C20_Witness ==
    /\ PrepareDone
    /\ Len(raw_tags) = 2
    /\ raw_tags[1] # raw_tags[2]
    /\ ~IsCanonical(raw_tags)
    /\ Len(Output) = 2
    /\ prepare_tag_list(<<raw_tags[2], raw_tags[1]>>) = Output

(***************************************************************************)
(* prepare_new_rating and store_new_rating (rate_place.rs 28-69)           *)
(***************************************************************************)
MaxPrepared == 2
MaxRatings == 2

\* the entries storage holds (place "foo" of the tests, with its status)
PlaceIds == {"foo"}

\* NewPlaceRating { entry, title, value, comment }
NewPlaceRatings ==
    [entry   : {"foo", "does_not_exist"},
     title   : {"title"},
     value   : {-2, -1, 2, 3},
     comment : {"", "comment"}]

\* RatingValue::is_valid
is_valid(r_value) == r_value \in -1..2

\* db.get_place(id): the place and its review status, or RepoError::NotFound
get_place(id) ==
    IF id \in PlaceIds THEN Some([place |-> [id |-> id], status |-> "Created"]) ELSE None

\* db.load_ratings_of_place(id)
load_ratings_of_place(stored, id) == SelectSeq(stored, LAMBDA rating : rating.place_id = id)

\* Storable(Place, ReviewStatus, Rating, Comment)
Storable(place, status, rating, comment) ==
    [place |-> place, status |-> status, rating |-> rating, comment |-> comment]

PrepareOk(storable, db_calls) ==
    [ok |-> TRUE, err |-> "", storable |-> Some(storable), db_calls |-> db_calls]
PrepareErr(e, db_calls) ==
    [ok |-> FALSE, err |-> e, storable |-> None, db_calls |-> db_calls]

\* mutant: the comment is not looked at
prepare_new_rating_AnyComment(r, rating_id, comment_id) ==
    IF ~is_valid(r.value) THEN PrepareErr("RatingValue", <<>>)
    ELSE LET found == get_place(r.entry) IN
         IF found = None THEN PrepareErr("Repo", <<"get_place">>)
         ELSE PrepareOk(Storable(found.some.place, found.some.status,
                                 [id |-> rating_id, place_id |-> r.entry,
                                  title |-> r.title, value |-> r.value],
                                 [id |-> comment_id, rating_id |-> rating_id,
                                  text |-> r.comment]),
                        <<"get_place">>)

\* lines 28-59; rating_id and comment_id are the values of the two Id::new()
prepare_new_rating(r, rating_id, comment_id) ==
    IF r.comment = "" THEN PrepareErr("EmptyComment", <<>>)
    ELSE IF ~is_valid(r.value) THEN PrepareErr("RatingValue", <<>>)
    ELSE LET found == get_place(r.entry) IN
         IF found = None THEN PrepareErr("Repo", <<"get_place">>)
         ELSE PrepareOk(Storable(found.some.place, found.some.status,
                                 [id |-> rating_id, place_id |-> r.entry,
                                  title |-> r.title, value |-> r.value],
                                 [id |-> comment_id, rating_id |-> rating_id,
                                  text |-> r.comment]),
                        <<"get_place">>)

\* whether the call gets as far as the two Id::new() of lines 37-38
DrawsIds(r) == r.comment # "" /\ is_valid(r.value)

\* what storage holds, as the records of the calls remember it
Stored == [ratings |-> ratings, comments |-> comments]

InitRate ==
    /\ IdleAuth
    /\ IdleQuery
    /\ IdleTags
    /\ ratings = <<>>
    /\ comments = <<>>
    /\ held = {}
    /\ store_pc = [pc |-> "idle"]
    /\ rate_result = NoResult
    /\ subscriptions = {}
    /\ sub_result = NoResult
    /\ next_id = 1

\* one call of prepare_new_rating
PrepareNewRating ==
    /\ \E r \in NewPlaceRatings :
          /\ DrawsIds(r) => next_id < 2 * MaxPrepared
          /\ LET res == prepare_new_rating(r, next_id, next_id + 1) IN
             /\ rate_result' = [op |-> "prepare", input |-> r, ok |-> res.ok,
                                err |-> res.err, storable |-> res.storable,
                                db_calls |-> res.db_calls, ret |-> None,
                                before |-> Stored, after |-> Stored]
             /\ held' = IF res.ok THEN held \cup {res.storable.some} ELSE held
          /\ next_id' = IF DrawsIds(r) THEN next_id + 2 ELSE next_id
    /\ UNCHANGED <<ratings, comments, store_pc>>
    /\ UNCHANGED <<authVars, queryVars, tagVars, subVars>>

\* the record of a store_new_rating call that returned
StoreReturn(s, before, after, db_calls, ret) ==
    [op |-> "store", input |-> s, ok |-> ret # None,
     err |-> IF ret # None THEN "" ELSE "Repo",
     storable |-> Some(s), db_calls |-> db_calls, ret |-> ret,
     before |-> before, after |-> after]

\* mutant: the result of db.create_rating is not looked at
StoreCreateRating_ErrorIgnored ==
    /\ store_pc.pc = "idle"
    /\ Len(ratings) < MaxRatings
    /\ \E s \in held, created \in BOOLEAN :
          /\ ratings' = IF created THEN Append(ratings, s.rating) ELSE ratings
          /\ store_pc' = [pc |-> "create_comment", s |-> s, before |-> Stored]
          /\ UNCHANGED rate_result
    /\ UNCHANGED <<comments, held, next_id>>
    /\ UNCHANGED <<authVars, queryVars, tagVars, subVars>>

\* lines 62-65: store_new_rating is called with a Storable and creates the
\* rating, or fails doing so and returns
StoreCreateRating ==
    /\ store_pc.pc = "idle"
    /\ Len(ratings) < MaxRatings
    /\ \E s \in held, created \in BOOLEAN :
          IF created
          THEN /\ ratings' = Append(ratings, s.rating)
               /\ store_pc' = [pc |-> "create_comment", s |-> s, before |-> Stored]
               /\ UNCHANGED rate_result
          ELSE /\ rate_result' = StoreReturn(s, Stored, Stored, <<"create_rating">>, None)
               /\ UNCHANGED <<ratings, store_pc>>
    /\ UNCHANGED <<comments, held, next_id>>
    /\ UNCHANGED <<authVars, queryVars, tagVars, subVars>>

\* line 66: the comment is created, or the call fails and returns
StoreCreateComment ==
    /\ store_pc.pc = "create_comment"
    /\ \E created \in BOOLEAN :
          IF created
          THEN /\ comments' = Append(comments, store_pc.s.comment)
               /\ store_pc' = [store_pc EXCEPT !.pc = "load_ratings"]
               /\ UNCHANGED rate_result
          ELSE /\ rate_result' = StoreReturn(store_pc.s, store_pc.before, Stored,
                                             <<"create_rating", "create_comment">>, None)
               /\ store_pc' = [pc |-> "idle"]
               /\ UNCHANGED comments
    /\ UNCHANGED <<ratings, held, next_id>>
    /\ UNCHANGED <<authVars, queryVars, tagVars, subVars>>

\* lines 67-68: the ratings of the place are loaded and the call returns
StoreLoadRatings ==
    /\ store_pc.pc = "load_ratings"
    /\ \E loaded \in BOOLEAN :
          rate_result' =
              StoreReturn(store_pc.s, store_pc.before, Stored,
                          <<"create_rating", "create_comment", "load_ratings_of_place">>,
                          IF loaded
                          THEN Some([place |-> store_pc.s.place, status |-> store_pc.s.status,
                                     ratings |-> load_ratings_of_place(
                                                     ratings, store_pc.s.place.id)])
                          ELSE None)
    /\ store_pc' = [pc |-> "idle"]
    /\ UNCHANGED <<ratings, comments, held, next_id>>
    /\ UNCHANGED <<authVars, queryVars, tagVars, subVars>>

NextRate ==
    \/ PrepareNewRating
    \/ StoreCreateRating
    \/ StoreCreateComment
    \/ StoreLoadRatings

SpecRate == InitRate /\ [][NextRate]_vars

(***************************************************************************)
(* Properties of prepare_new_rating and store_new_rating                   *)
(***************************************************************************)
\* the last call that returned was a prepare_new_rating / store_new_rating
PrepareReturned == rate_result # NoResult /\ rate_result.op = "prepare"
StoreReturned == rate_result # NoResult /\ rate_result.op = "store"

\* every stored comment refers to a stored rating
CommentsHaveRatings ==
    \A i \in 1..Len(comments) : \E j \in 1..Len(ratings) :
        ratings[j].id = comments[i].rating_id

\* C21: each successful store_new_rating has added exactly one rating and
\* exactly one comment to storage, the rating's place_id is the id of the
\* rated entry, which storage holds, the comment's rating_id is that rating's
\* id, and at every point every stored comment refers to a stored rating.
C21_RatingWithComment ==
    /\ (StoreReturned /\ rate_result.ok) =>
          LET s == rate_result.input IN
          /\ rate_result.after.ratings = Append(rate_result.before.ratings, s.rating)
          /\ rate_result.after.comments = Append(rate_result.before.comments, s.comment)
          /\ s.rating.place_id = s.place.id
          /\ s.place.id \in PlaceIds
          /\ s.comment.rating_id = s.rating.id
          /\ s.comment.id # s.rating.id
    /\ CommentsHaveRatings

\* a store succeeded after an earlier one had failed between the rating and
\* the comment: two ratings and one comment are stored
C21_Witness ==
    /\ StoreReturned
    /\ rate_result.ok
    /\ Len(rate_result.after.ratings) = 2
    /\ Len(rate_result.after.comments) = 1
    /\ ratings[2].id = comments[1].rating_id

\* the case of the test rate_without_login (rate_place.rs 149-173)
C21_RateWithoutLogin ==
    /\ StoreReturned
    /\ rate_result.ok
    /\ rate_result.input.rating.value = 2
    /\ Len(ratings) = 1
    /\ Len(comments) = 1
    /\ ratings[1].place_id = "foo"
    /\ comments[1].rating_id = ratings[1].id

\* the rejections of the last prepare_new_rating call: it failed when the
\* comment is empty, the value is out of range or the entry is not stored,
\* and in the first two cases storage was not consulted
RejectsBadInput ==
    PrepareReturned =>
        LET r == rate_result.input IN
        /\ (r.comment = "" \/ r.value < -1 \/ r.value > 2 \/ r.entry \notin PlaceIds) =>
              /\ ~rate_result.ok
              /\ rate_result.err # ""
              /\ rate_result.storable = None
        /\ (r.comment = "" \/ r.value < -1 \/ r.value > 2) => rate_result.db_calls = <<>>
        /\ r.comment = "" => rate_result.err = "EmptyComment"

\* a step in which a prepare_new_rating call returns an error
PrepareFailsStep ==
    /\ rate_result' # rate_result
    /\ rate_result'.op = "prepare"
    /\ ~rate_result'.ok

\* C22: prepare_new_rating fails with an error whenever the comment is
\* empty, the rating value is outside the valid range or the entry is not in
\* storage; the first two checks are made before storage is consulted; and a
\* failing call leaves the stored ratings and comments (and the Storables
\* handed out) as they were.
C22_PrepareRejects ==
    /\ []RejectsBadInput
    /\ [][PrepareFailsStep =>
              (ratings' = ratings /\ comments' = comments /\ held' = held)]_vars

\* a rating of value 3 for the stored place is rejected without a look at
\* storage, which holds a rating and a comment
C22_Witness ==
    /\ PrepareReturned
    /\ rate_result.input = [entry |-> "foo", title |-> "title", value |-> 3,
                            comment |-> "comment"]
    /\ rate_result.err = "RatingValue"
    /\ rate_result.db_calls = <<>>
    /\ Len(ratings) = 1
    /\ Len(comments) = 1

\* the cases of the tests rate_non_existing_entry, rate_with_empty_comment
\* and rate_with_invalid_value_comment (rate_place.rs 78-147)
C22_Tests ==
    LET r == [entry |-> "foo", title |-> "title", value |-> 2, comment |-> "comment"]
    IN  /\ ~prepare_new_rating([r EXCEPT !.entry = "does_not_exist"], 1, 2).ok
        /\ ~prepare_new_rating([r EXCEPT !.comment = ""], 1, 2).ok
        /\ ~prepare_new_rating([r EXCEPT !.value = 3], 1, 2).ok
        /\ ~prepare_new_rating([r EXCEPT !.value = -2], 1, 2).ok
        /\ prepare_new_rating(r, 1, 2).ok

\* the entry is not stored: the call fails after asking storage for it
C22_NoSuchEntry ==
    /\ PrepareReturned
    /\ rate_result.input.entry \notin PlaceIds
    /\ rate_result.err = "Repo"
    /\ rate_result.db_calls = <<"get_place">>

(***************************************************************************)
(* subscribe_to_bbox and unsubscribe_all_bboxes (mod.rs 109-128)           *)
(***************************************************************************)
MaxSubscribed == 3

SubscriberEmails == {"u1", "u2"}

\* the boxes asked for: two proper ones and one whose corners are swapped
Bboxes ==
    {[sw |-> <<0, 0>>, ne |-> <<2, 2>>],
     [sw |-> <<1, 1>>, ne |-> <<3, 3>>],
     [sw |-> <<2, 2>>, ne |-> <<0, 0>>]}

\* util::validate::bbox: Ok(()) or ParameterError::Bbox
validate_bbox(bbox) ==
    /\ bbox.sw[1] <= bbox.ne[1]
    /\ bbox.sw[2] <= bbox.ne[2]
    /\ bbox.sw # bbox.ne

\* db.delete_bbox_subscriptions_by_email(email): what is left afterwards
delete_bbox_subscriptions_by_email(subs, user_email) ==
    {sub \in subs : sub.user_email # user_email}

\* BboxSubscription { id, user_email, bbox }
BboxSubscription(id, user_email, bbox) == [id |-> id, user_email |-> user_email, bbox |-> bbox]

\* get_bbox_subscriptions (lines 130-136)
get_bbox_subscriptions(subs, user_email) == {sub \in subs : sub.user_email = user_email}

\* the record of a call that returned
SubReturn(op, user_email, bbox, err, before, after) ==
    [op |-> op, user_email |-> user_email, bbox |-> bbox, ok |-> err = "", err |-> err,
     before |-> before, after |-> after]

InitSub ==
    /\ IdleAuth
    /\ IdleQuery
    /\ IdleTags
    /\ ratings = <<>>
    /\ comments = <<>>
    /\ held = {}
    /\ store_pc = [pc |-> "idle"]
    /\ rate_result = NoResult
    /\ subscriptions = {}
    /\ sub_result = NoResult
    /\ next_id = 1

\* mutant: the existing subscriptions are not removed first
SubscribeToBbox_KeepsOld ==
    /\ \E user_email \in SubscriberEmails, bbox \in Bboxes :
          IF ~validate_bbox(bbox)
          THEN /\ sub_result' = SubReturn("subscribe", user_email, bbox, "Bbox",
                                          subscriptions, subscriptions)
               /\ UNCHANGED <<subscriptions, next_id>>
          ELSE /\ next_id <= MaxSubscribed
               /\ next_id' = next_id + 1
               /\ \E created \in BOOLEAN :
                     /\ subscriptions' =
                            subscriptions \cup
                                (IF created
                                 THEN {BboxSubscription(next_id, user_email, bbox)}
                                 ELSE {})
                     /\ sub_result' = SubReturn("subscribe", user_email, bbox,
                                                IF created THEN "" ELSE "Repo",
                                                subscriptions, subscriptions')
    /\ UNCHANGED <<authVars, queryVars, tagVars, rateVars>>

\* lines 109-124: one call of subscribe_to_bbox
SubscribeToBbox ==
    /\ \E user_email \in SubscriberEmails, bbox \in Bboxes, deleted \in BOOLEAN :
          IF ~validate_bbox(bbox)
          THEN /\ sub_result' = SubReturn("subscribe", user_email, bbox, "Bbox",
                                          subscriptions, subscriptions)
               /\ UNCHANGED <<subscriptions, next_id>>
          ELSE IF ~deleted
          THEN /\ sub_result' = SubReturn("subscribe", user_email, bbox, "Repo",
                                          subscriptions, subscriptions)
               /\ UNCHANGED <<subscriptions, next_id>>
          ELSE /\ next_id <= MaxSubscribed
               /\ next_id' = next_id + 1
               /\ \E created \in BOOLEAN :
                     /\ subscriptions' =
                            delete_bbox_subscriptions_by_email(subscriptions, user_email)
                                \cup (IF created
                                      THEN {BboxSubscription(next_id, user_email, bbox)}
                                      ELSE {})
                     /\ sub_result' = SubReturn("subscribe", user_email, bbox,
                                                IF created THEN "" ELSE "Repo",
                                                subscriptions, subscriptions')
    /\ UNCHANGED <<authVars, queryVars, tagVars, rateVars>>

\* lines 126-128: one call of unsubscribe_all_bboxes
UnsubscribeAllBboxes ==
    /\ \E user_email \in SubscriberEmails, deleted \in BOOLEAN :
          /\ subscriptions' =
                 IF deleted
                 THEN delete_bbox_subscriptions_by_email(subscriptions, user_email)
                 ELSE subscriptions
          /\ sub_result' = SubReturn("unsubscribe", user_email, None,
                                     IF deleted THEN "" ELSE "Repo",
                                     subscriptions, subscriptions')
    /\ UNCHANGED next_id
    /\ UNCHANGED <<authVars, queryVars, tagVars, rateVars>>

NextSub ==
    \/ SubscribeToBbox
    \/ UnsubscribeAllBboxes

SpecSub == InitSub /\ [][NextSub]_vars

(***************************************************************************)
(* Properties of subscribe_to_bbox                                         *)
(***************************************************************************)
SubReturned == sub_result # NoResult

\* C23: every user has at most one bbox subscription; after a successful
\* subscribe_to_bbox the user's only subscription is the new bbox; a call
\* rejected by the bbox validation leaves all subscriptions as they were; and
\* no call changes the subscriptions of another user.
C23_OneSubscription ==
    /\ \A u \in SubscriberEmails :
          Cardinality(get_bbox_subscriptions(subscriptions, u)) <= 1
    /\ SubReturned =>
          /\ sub_result.after = subscriptions
          /\ (sub_result.op = "subscribe" /\ sub_result.ok) =>
                \E sub \in subscriptions :
                    /\ get_bbox_subscriptions(subscriptions, sub_result.user_email) = {sub}
                    /\ sub.bbox = sub_result.bbox
                    /\ sub \notin sub_result.before
          /\ (sub_result.op = "subscribe" /\ sub_result.err = "Bbox") =>
                subscriptions = sub_result.before
          /\ (sub_result.op = "subscribe" /\ ~validate_bbox(sub_result.bbox)) =>
                sub_result.err = "Bbox"
          /\ \A u \in SubscriberEmails \ {sub_result.user_email} :
                get_bbox_subscriptions(subscriptions, u)
                    = get_bbox_subscriptions(sub_result.before, u)

\* a user who had a subscription subscribed to another box, while another
\* user holds a subscription too
C23_Witness ==
    /\ SubReturned
    /\ sub_result.op = "subscribe"
    /\ sub_result.ok
    /\ \E old \in get_bbox_subscriptions(sub_result.before, sub_result.user_email) :
          old.bbox # sub_result.bbox
    /\ \E u \in SubscriberEmails \ {sub_result.user_email} :
          get_bbox_subscriptions(subscriptions, u) # {}

\* a call rejected by the validation, with subscriptions stored
C23_Rejected ==
    /\ SubReturned
    /\ sub_result.err = "Bbox"
    /\ get_bbox_subscriptions(subscriptions, sub_result.user_email) # {}

\* the new subscription could not be created: the call failed and the user
\* has lost the subscription held before
C23_LostOnFailure ==
    /\ SubReturned
    /\ sub_result.op = "subscribe"
    /\ ~sub_result.ok
    /\ get_bbox_subscriptions(sub_result.before, sub_result.user_email) # {}
    /\ get_bbox_subscriptions(subscriptions, sub_result.user_email) = {}

=============================================================================
